---------------------------- MODULE Spec2Model ----------------------------
(***************************************************************************)
(* A2S query client (package a2s): packet codec, challenge handshake,      *)
(* retry wrapper and the public operations GetInfo / GetPlayers /          *)
(* GetRules / CheckFeatures, over one UDP association.                     *)
(*                                                                         *)
(* Bytes are naturals 0..255, byte slices are sequences (Go index i is     *)
(* TLA+ index i+1), int32 values are integers in -2^31 .. 2^31-1.  All     *)
(* arithmetic stays inside the signed 32-bit range.                        *)
(***************************************************************************)
EXTENDS Integers, Sequences, FiniteSets, TLC

(***************************************************************************)
(* Protocol constants (part_001, const block).                             *)
(***************************************************************************)
A2S_INFO == 84
A2S_PLAYER == 85
A2S_RULES == 86
S2C_CHALLENGE == 65
S2A_INFO_SRC == 73
S2A_INFO_GOLD == 109
S2A_PLAYER == 68
S2A_RULES == 69

\* Header = 0xFFFFFFFF and SPLIT_FLAG = 0xFFFFFFFE as their little-endian bytes
Header == <<255, 255, 255, 255>>
SPLIT_FLAG == <<254, 255, 255, 255>>

\* the retry budget of sendRequest: for retry := 0; retry < 3; retry++
MaxRetries == 3

(***************************************************************************)
(* Errors.  Every error value is a record of the same shape; ProtocolError *)
(* carries the expected and the actual type byte.                          *)
(***************************************************************************)
Err(k) == [kind |-> k, expected |-> 0, actual |-> 0]
NoErr == Err("nil")
ErrChallengeRequired == Err("ErrChallengeRequired")
ErrTimeout == Err("ErrTimeout")
ErrInvalidResponse == Err("ErrInvalidResponse")
ErrNotConnected == Err("ErrNotConnected")
ErrTooManyRetries == Err("ErrTooManyRetries")
ErrShortResponse == Err("ErrShortResponse")
ErrUnknownHeader == Err("unknown header")
ErrWrite == Err("write error")
ErrRead == Err("read error")
ErrChallengeNotReceived == Err("challenge not received")
\* a Go run-time panic (index out of range); not an error value, it unwinds
Panic == Err("panic")
ProtocolError(e, a) == [kind |-> "ProtocolError", expected |-> e, actual |-> a]

(***************************************************************************)
(* binary.LittleEndian on 32-bit values.  uint32(c) of an int32 c is its   *)
(* two's complement; the top byte carries the sign bit.                    *)
(***************************************************************************)
Low31(c) == IF c >= 0 THEN c ELSE (c + 2147483647) + 1

PutUint32(c) ==
    LET u == Low31(c)
    IN  << u % 256,
           (u \div 256) % 256,
           (u \div 65536) % 256,
           (u \div 16777216) + (IF c < 0 THEN 128 ELSE 0) >>

\* int32(binary.LittleEndian.Uint32(b)) for a 4-byte slice b
Int32LE(b) ==
    LET lo == b[1] + 256 * b[2] + 65536 * b[3] + 16777216 * (b[4] % 128)
    IN  IF b[4] >= 128 THEN (lo - 2147483647) - 1 ELSE lo

\* binary.LittleEndian.Uint16(b) for a slice of at least 2 bytes
Uint16LE(b) == b[1] + 256 * b[2]

\* data[from:] of Go
From(data, from) == SubSeq(data, from + 1, Len(data))


(***************************************************************************)
(* Binary cursor: readString(data, &offset).  Returns the text and the     *)
(* advanced offset.                                                        *)
(***************************************************************************)
RECURSIVE ScanToNul(_, _)
\* for *offset < len(data) && data[*offset] != 0 { *offset++ }
ScanToNul(data, offset) ==
    IF offset < Len(data) /\ data[offset + 1] # 0
    THEN ScanToNul(data, offset + 1)
    ELSE offset

readString(data, offset) ==
    IF offset >= Len(data)
    THEN [str |-> <<>>, off |-> offset]
    ELSE LET e == ScanToNul(data, offset)
         IN  [str |-> SubSeq(data, offset + 1, e),
              off |-> IF e < Len(data) THEN e + 1 ELSE e]

(***************************************************************************)
(* Packet codec, outbound.  challenge is c.challenge at the time of the    *)
(* call.                                                                   *)
(***************************************************************************)
\* buildPacket that never appends the challenge to an INFO request
buildPacketNoTrailer(challenge, packetType, payload) ==
    LET challengeAtBeginning == packetType = A2S_PLAYER \/ packetType = A2S_RULES
    IN  Header
        \o <<packetType>>
        \o (IF challengeAtBeginning THEN PutUint32(challenge) ELSE <<>>)
        \o payload

\* buildPacket that copies the payload before the leading challenge
buildPacketPayloadFirst(challenge, packetType, payload) ==
    LET challengeAtBeginning == packetType = A2S_PLAYER \/ packetType = A2S_RULES
        challengeAtEnd == packetType = A2S_INFO /\ challenge # -1
    IN  Header
        \o <<packetType>>
        \o payload
        \o (IF challengeAtBeginning THEN PutUint32(challenge) ELSE <<>>)
        \o (IF challengeAtEnd THEN PutUint32(challenge) ELSE <<>>)

buildPacket(challenge, packetType, payload) ==
    LET challengeAtBeginning == packetType = A2S_PLAYER \/ packetType = A2S_RULES
        challengeAtEnd == packetType = A2S_INFO /\ challenge # -1
    IN  Header
        \o <<packetType>>
        \o (IF challengeAtBeginning THEN PutUint32(challenge) ELSE <<>>)
        \o payload
        \o (IF challengeAtEnd THEN PutUint32(challenge) ELSE <<>>)

(***************************************************************************)
(* Packet codec, inbound.  Each operator returns the payload (val), the    *)
(* error and the value of c.challenge after the call.                      *)
(***************************************************************************)
Ret(v, e, ch) == [val |-> v, err |-> e, challenge |-> ch]

\* processSinglePacket that compares with the expected type before it looks
\* for a challenge
processSinglePacketExpectFirst(data, expect, challenge) ==
    IF Len(data) < 1 THEN Ret(<<>>, ErrShortResponse, challenge)
    ELSE LET responseType == data[1]
         IN  IF responseType = expect
             THEN Ret(From(data, 1), NoErr, challenge)
             ELSE IF responseType = S2C_CHALLENGE
                  THEN IF Len(data) < 5
                       THEN Ret(<<>>, ErrShortResponse, challenge)
                       ELSE Ret(<<>>, ErrChallengeRequired,
                                Int32LE(SubSeq(data, 2, 5)))
                  ELSE Ret(<<>>, ProtocolError(expect, responseType), challenge)

processSinglePacket(data, expect, challenge) ==
    IF Len(data) < 1 THEN Ret(<<>>, ErrShortResponse, challenge)
    ELSE LET responseType == data[1]
         IN  IF responseType = S2C_CHALLENGE
             THEN IF Len(data) < 5
                  THEN Ret(<<>>, ErrShortResponse, challenge)
                  ELSE Ret(<<>>, ErrChallengeRequired, Int32LE(SubSeq(data, 2, 5)))
             ELSE IF responseType # expect
                  THEN Ret(<<>>, ProtocolError(expect, responseType), challenge)
                  ELSE Ret(From(data, 1), NoErr, challenge)

\* processSplitPacket that never extends the payload start beyond 6
processSplitPacketStart6(data, expect, challenge) ==
    IF Len(data) < 9 THEN Ret(<<>>, ErrShortResponse, challenge)
    ELSE LET payloadStart == 4 + 1 + 1
         IN  IF payloadStart >= Len(data)
             THEN Ret(<<>>, ErrInvalidResponse, challenge)
             ELSE processSinglePacket(From(data, payloadStart), expect, challenge)

\* processSplitPacket that asks for 6 bytes only
processSplitPacketMin6(data, expect, challenge) ==
    IF Len(data) < 6 THEN Ret(<<>>, ErrShortResponse, challenge)
    ELSE LET payloadStart == (4 + 1 + 1) + (IF Len(data) > 8 THEN 2 ELSE 0)
         IN  IF payloadStart >= Len(data)
             THEN Ret(<<>>, ErrInvalidResponse, challenge)
             ELSE processSinglePacket(From(data, payloadStart), expect, challenge)

processSplitPacket(data, expect, challenge) ==
    IF Len(data) < 9 THEN Ret(<<>>, ErrShortResponse, challenge)
    ELSE LET payloadStart == (4 + 1 + 1) + (IF Len(data) > 8 THEN 2 ELSE 0)
         IN  IF payloadStart >= Len(data)
             THEN Ret(<<>>, ErrInvalidResponse, challenge)
             ELSE processSinglePacket(From(data, payloadStart), expect, challenge)

\* processResponse that takes every header other than the split flag for a
\* single packet
processResponseAnyHeader(data, expect, challenge) ==
    IF Len(data) < 4 THEN Ret(<<>>, ErrShortResponse, challenge)
    ELSE LET header == SubSeq(data, 1, 4)
         IN  IF header = SPLIT_FLAG
             THEN processSplitPacket(From(data, 4), expect, challenge)
             ELSE processSinglePacket(From(data, 4), expect, challenge)

processResponse(data, expect, challenge) ==
    IF Len(data) < 4 THEN Ret(<<>>, ErrShortResponse, challenge)
    ELSE LET header == SubSeq(data, 1, 4)
         IN  IF header = Header
             THEN processSinglePacket(From(data, 4), expect, challenge)
             ELSE IF header = SPLIT_FLAG
                  THEN processSplitPacket(From(data, 4), expect, challenge)
                  ELSE Ret(<<>>, ErrUnknownHeader, challenge)

(***************************************************************************)
(* Info parsers.  A parse returns [val, err]; val is NilInfo when the Go   *)
(* code returns a nil *ServerInfo.  64-bit fields are kept as their 8      *)
(* little-endian bytes.                                                    *)
(***************************************************************************)
Zero64 == <<0, 0, 0, 0, 0, 0, 0, 0>>

NilInfo == [nil |-> TRUE]

\* &ServerInfo{}: every field at its zero value
ServerInfo ==
    [Protocol |-> 0, Name |-> <<>>, Map |-> <<>>, Folder |-> <<>>, Game |-> <<>>,
     AppID |-> 0, Players |-> 0, MaxPlayers |-> 0, Bots |-> 0, ServerType |-> 0,
     Environment |-> 0, Visibility |-> 0, VAC |-> 0, Version |-> <<>>,
     GamePort |-> 0, SteamID |-> Zero64, SourceTVPort |-> 0, SourceTVName |-> <<>>,
     GameID |-> Zero64, EDF |-> 0]

\* info.EDF & mask != 0, for a single-bit mask
HasBit(edf, mask) == (edf \div mask) % 2 = 1

\* the Extra Data Flags block with the game port read big-endian
parseEDFBigEndianPort(info, data, offset) ==
    LET n == Len(data)
        edf == data[offset + 1]
        o0 == offset + 1
        port == HasBit(edf, 128) /\ o0 + 2 <= n
    IN  [info EXCEPT
            !.EDF = edf,
            !.GamePort = IF port THEN 256 * data[o0 + 1] + data[o0 + 2] ELSE @]

\* the Extra Data Flags block of parseSourceInfo (lines 376-406); offset is
\* the offset of the EDF byte, which is present
parseEDF(info, data, offset) ==
    LET n == Len(data)
        edf == data[offset + 1]
        o0 == offset + 1
        port == HasBit(edf, 128) /\ o0 + 2 <= n
        o1 == IF port THEN o0 + 2 ELSE o0
        sid == HasBit(edf, 16) /\ o1 + 8 <= n
        o2 == IF sid THEN o1 + 8 ELSE o1
        stv == HasBit(edf, 64) /\ o2 + 2 <= n
        stvName == readString(data, o2 + 2)
        o3 == IF stv THEN stvName.off ELSE o2
        o4 == IF HasBit(edf, 32) THEN readString(data, o3).off ELSE o3
        gid == HasBit(edf, 1) /\ o4 + 8 <= n
    IN  [info EXCEPT
            !.EDF = edf,
            !.GamePort = IF port THEN Uint16LE(From(data, o0)) ELSE @,
            !.SteamID = IF sid THEN SubSeq(data, o1 + 1, o1 + 8) ELSE @,
            !.SourceTVPort = IF stv THEN Uint16LE(From(data, o2)) ELSE @,
            !.SourceTVName = IF stv THEN stvName.str ELSE @,
            !.GameID = IF gid THEN SubSeq(data, o4 + 1, o4 + 8) ELSE @]

parseSourceInfo(data) ==
    IF Len(data) < 20 THEN [val |-> NilInfo, err |-> ErrShortResponse]
    ELSE
    LET n == Len(data)
        name == readString(data, 1)
        map == readString(data, name.off)
        folder == readString(data, map.off)
        game == readString(data, folder.off)
        hasApp == game.off + 2 <= n
        a == IF hasApp THEN game.off + 2 ELSE game.off
        version == readString(data, a + 7)
        info == [ServerInfo EXCEPT
                    !.Protocol = data[1],
                    !.Name = name.str, !.Map = map.str,
                    !.Folder = folder.str, !.Game = game.str,
                    !.AppID = IF hasApp THEN Uint16LE(From(data, game.off)) ELSE 0,
                    !.Players = data[a + 1], !.MaxPlayers = data[a + 2],
                    !.Bots = data[a + 3], !.ServerType = data[a + 4],
                    !.Environment = data[a + 5], !.Visibility = data[a + 6],
                    !.VAC = data[a + 7], !.Version = version.str]
    IN  IF a + 3 > n THEN [val |-> NilInfo, err |-> ErrShortResponse]
        ELSE IF a + 3 + 4 > n THEN [val |-> NilInfo, err |-> ErrShortResponse]
        ELSE IF version.off < n
             THEN [val |-> parseEDF(info, data, version.off), err |-> NoErr]
             ELSE [val |-> info, err |-> NoErr]

\* parseGoldSourceInfo with every read bounds-checked: a truncated payload
\* is a ShortResponse
parseGoldSourceInfoChecked(data) ==
    LET n == Len(data)
        addr == readString(data, 0)
        name == readString(data, addr.off)
        map == readString(data, name.off)
        folder == readString(data, map.off)
        game == readString(data, folder.off)
        o == game.off
        modFlag == data[o + 7]
        modDL == readString(data, readString(data, o + 7).off)
        v == IF modFlag = 1 THEN modDL.off + 1 + 4 + 4 + 1 + 1 ELSE o + 7
        info == [ServerInfo EXCEPT
                    !.Name = name.str, !.Map = map.str,
                    !.Folder = folder.str, !.Game = game.str,
                    !.Players = data[o + 1], !.MaxPlayers = data[o + 2],
                    !.Protocol = data[o + 3], !.ServerType = data[o + 4],
                    !.Environment = data[o + 5], !.Visibility = data[o + 6],
                    !.VAC = data[v + 1],
                    !.Bots = IF v + 1 < n THEN data[v + 2] ELSE 0]
    IN  IF o + 6 >= n THEN [val |-> NilInfo, err |-> ErrShortResponse]
        ELSE IF v >= n THEN [val |-> NilInfo, err |-> ErrShortResponse]
        ELSE [val |-> info, err |-> NoErr]

\* An index expression data[i] with i >= len(data) panics; the first such
\* read ends the call.
parseGoldSourceInfo(data) ==
    LET n == Len(data)
        addr == readString(data, 0)
        name == readString(data, addr.off)
        map == readString(data, name.off)
        folder == readString(data, map.off)
        game == readString(data, folder.off)
        o == game.off
        modFlag == data[o + 7]
        modURL == readString(data, o + 7)
        modDL == readString(data, modURL.off)
        v == IF modFlag = 1 THEN modDL.off + 1 + 4 + 4 + 1 + 1 ELSE o + 7
        info == [ServerInfo EXCEPT
                    !.Name = name.str, !.Map = map.str,
                    !.Folder = folder.str, !.Game = game.str,
                    !.Players = data[o + 1], !.MaxPlayers = data[o + 2],
                    !.Protocol = data[o + 3], !.ServerType = data[o + 4],
                    !.Environment = data[o + 5], !.Visibility = data[o + 6],
                    !.VAC = data[v + 1],
                    !.Bots = IF v + 1 < n THEN data[v + 2] ELSE 0]
    IN  IF o + 2 > n THEN [val |-> NilInfo, err |-> ErrShortResponse]
        ELSE IF o + 6 >= n THEN [val |-> NilInfo, err |-> Panic]
        ELSE IF v >= n THEN [val |-> NilInfo, err |-> Panic]
        ELSE [val |-> info, err |-> NoErr]

(***************************************************************************)
(* Player and rules parsers.  Duration is kept as the 4 bytes of its       *)
(* IEEE-754 bit pattern.                                                   *)
(***************************************************************************)
\* the players loop that returns what it has when an entry is cut short
playersLoopLenient(data, i, numPlayers, offset, players) ==
    LET RECURSIVE go(_, _, _)
        go(j, off, ps) ==
            IF ~(j < numPlayers /\ off < Len(data))
            THEN [val |-> ps, err |-> NoErr]
            ELSE LET name == readString(data, off + 1)
                     o == name.off
                     player == [Index |-> data[off + 1], Name |-> name.str,
                                Score |-> Int32LE(SubSeq(data, o + 1, o + 4)),
                                Duration |-> SubSeq(data, o + 5, o + 8),
                                Deaths |-> 0, Money |-> 0]
                 IN  IF o + 8 > Len(data) THEN [val |-> ps, err |-> NoErr]
                     ELSE go(j + 1, o + 8, Append(ps, player))
    IN  go(i, offset, players)

RECURSIVE playersLoop(_, _, _, _, _)
\* for i := 0; i < numPlayers && offset < len(data); i++ { ... }
playersLoop(data, i, numPlayers, offset, players) ==
    IF ~(i < numPlayers /\ offset < Len(data))
    THEN [val |-> players, err |-> NoErr]
    ELSE LET name == readString(data, offset + 1)
             o == name.off
             player == [Index |-> data[offset + 1], Name |-> name.str,
                        Score |-> Int32LE(SubSeq(data, o + 1, o + 4)),
                        Duration |-> SubSeq(data, o + 5, o + 8),
                        Deaths |-> 0, Money |-> 0]
         IN  IF o + 4 > Len(data) THEN [val |-> <<>>, err |-> ErrShortResponse]
             ELSE IF o + 8 > Len(data) THEN [val |-> <<>>, err |-> ErrShortResponse]
             ELSE playersLoop(data, i + 1, numPlayers, o + 8, Append(players, player))

parsePlayersResponse(data) ==
    IF Len(data) < 1 THEN [val |-> <<>>, err |-> ErrShortResponse]
    ELSE playersLoop(data, 0, data[1], 1, <<>>)

RECURSIVE rulesLoop(_, _, _, _, _)
\* for i := 0; i < numRules && offset < len(data); i++ { ... }
rulesLoop(data, i, numRules, offset, rules) ==
    IF ~(i < numRules /\ offset < Len(data))
    THEN [val |-> rules, err |-> NoErr]
    ELSE LET name == readString(data, offset)
             value == readString(data, name.off)
         IN  rulesLoop(data, i + 1, numRules, value.off,
                       Append(rules, [Name |-> name.str, Value |-> value.str]))

parseRulesResponse(data) ==
    IF Len(data) < 2 THEN [val |-> <<>>, err |-> ErrShortResponse]
    ELSE rulesLoop(data, 0, Uint16LE(data), 2, <<>>)

(***************************************************************************)
(* The network.  A read returns a datagram, times out, or fails with some  *)
(* other error; a server may send anything, so every read draws from       *)
(* Datagrams.                                                              *)
(***************************************************************************)
\* S2C_CHALLENGE response carrying challenge c
ChalResp(c) == Header \o <<S2C_CHALLENGE>> \o PutUint32(c)

\* challenge values a server hands out: the sentinel, 0x01020304, -2
ServerChallenges == {-1, 16909060, -2}

\* "Source Engine Query\0"
InfoPayload ==
    <<83, 111, 117, 114, 99, 101, 32, 69, 110, 103, 105, 110, 101, 32,
      81, 117, 101, 114, 121, 0>>

\* challengeReq := []byte{0xFF, 0xFF, 0xFF, 0xFF}
challengeReq == <<255, 255, 255, 255>>

\* protocol 17, "A", "B", "C", "D", appid 2, 5/16 players, 0 bots, 'd', 'l',
\* public, VAC, "v1", EDF 0x80, game port 27015
SrcInfoBody ==
    <<17, 65, 0, 66, 0, 67, 0, 68, 0, 2, 0, 5, 16, 0, 100, 108, 0, 1,
      118, 49, 0, 128, 135, 105>>
SrcInfoResp == Header \o <<S2A_INFO_SRC>> \o SrcInfoBody
\* a Source info response of fewer than 20 bytes
ShortSrcInfoResp == Header \o <<S2A_INFO_SRC, 17, 65, 0>>

\* address "a", "N", "M", "F", "G", 3/8 players, protocol 47, 'd', 'l', public,
\* not a mod, VAC, 2 bots
GoldInfoBody == <<97, 0, 78, 0, 77, 0, 70, 0, 71, 0, 3, 8, 47, 100, 108, 0, 0, 1, 2>>
GoldInfoResp == Header \o <<S2A_INFO_GOLD>> \o GoldInfoBody
\* the same cut after the visibility byte
GoldInfoCut == Header \o <<S2A_INFO_GOLD>> \o SubSeq(GoldInfoBody, 1, 16)

\* one player: slot 0, "p", score 7, duration bits 00 00 80 3F (1.0)
PlayersBody == <<1, 0, 112, 0, 7, 0, 0, 0, 0, 0, 128, 63>>
PlayersResp == Header \o <<S2A_PLAYER>> \o PlayersBody

\* one rule: "k" = "v"
RulesBody == <<1, 0, 107, 0, 118, 0>>
RulesResp == Header \o <<S2A_RULES>> \o RulesBody

\* a challenge response cut to 3 bytes after the type byte
ShortChalResp == Header \o <<S2C_CHALLENGE, 4, 3, 2>>
\* a datagram of fewer than 4 bytes
TinyResp == <<255, 255>>
\* a header that is neither 0xFFFFFFFF nor 0xFFFFFFFE
UnknownHeaderResp == <<253, 255, 255, 255>> \o <<S2C_CHALLENGE>> \o PutUint32(-2)
\* a split packet: 8 bytes of fragment metadata, then a challenge response
SplitChalResp ==
    SPLIT_FLAG \o <<1, 0, 0, 0, 1, 0, 224, 4>> \o <<S2C_CHALLENGE>> \o PutUint32(-2)

Datagrams ==
    {ChalResp(c) : c \in ServerChallenges \ {-2}}
    \cup {SplitChalResp, SrcInfoResp, ShortSrcInfoResp, GoldInfoResp, GoldInfoCut, PlayersResp,
          RulesResp, ShortChalResp, TinyResp, UnknownHeaderResp}

\* what conn.Read can return
ReadOutcomes ==
    {[kind |-> "data", data |-> d] : d \in Datagrams}
    \cup {[kind |-> "timeout", data |-> <<>>], [kind |-> "error", data |-> <<>>]}

(***************************************************************************)
(* State.  conn, connected and challenge are the fields of Client (the     *)
(* timeout is a fixed duration and is not modelled).  caller[p] is the     *)
(* frame of caller p: the public operation it is in and where, the         *)
(* arguments of the running sendRequest, and three histories of the        *)
(* current (or, when idle, the last) public operation:                     *)
(*   log    the socket calls made, in order;                               *)
(*   srs    one record per sendRequest call;                               *)
(*   inner  for CheckFeatures, the result of each query it invoked;        *)
(* and ch0, the cached challenge when the operation began.  app is used    *)
(* only by the specifications that call one function directly.  inbox is   *)
(* used only by ConcSpec, where the server's answers are tracked: the      *)
(* datagrams the socket has received, in order, each with the caller whose *)
(* request it answers (to) and the caller whose read returned it (by, 0    *)
(* while it waits).  Elsewhere a read may return any datagram.             *)
(***************************************************************************)
VARIABLES conn, connected, challenge, caller, app, inbox

vars == <<conn, connected, challenge, caller, app, inbox>>

Callers == {1}

NoRes == [op |-> "none", val |-> <<>>, err |-> NoErr]

NoFeatures == [Info |-> FALSE, Players |-> FALSE, Rules |-> FALSE, Ping |-> FALSE]

IdleFrame ==
    [op |-> "idle", outer |-> "none", stage |-> "none", pc |-> "idle",
     packetType |-> 0, payload |-> <<>>, expectResponse |-> 0, retry |-> 0,
     features |-> NoFeatures, log |-> <<>>, srs |-> <<>>, inner |-> <<>>,
     ch0 |-> -1, res |-> NoRes]

NoApp ==
    [fn |-> "none", data |-> <<>>, t |-> 0, ch0 |-> -1, done |-> FALSE,
     out |-> Ret(<<>>, NoErr, -1)]

\* NewClient: no association, challenge -1
Init ==
    /\ conn = "nil"
    /\ connected = FALSE
    /\ challenge = -1
    /\ caller = [p \in Callers |-> IdleFrame]
    /\ app = NoApp
    /\ inbox = <<>>

\* IsConnected that looks at the association only
IsConnectedConnOnly == conn # "nil"

IsConnected == connected /\ conn # "nil"

(***************************************************************************)
(* The retry wrapper.  Given the retry counter and the result of one       *)
(* sendRequestRaw, either loop (again) or return (val, err).               *)
(***************************************************************************)
\* sendRequest that retries after any error
sendRequestRetryAll(retry, val, err) ==
    IF err = NoErr THEN [again |-> FALSE, val |-> val, err |-> NoErr]
    ELSE IF retry + 1 < MaxRetries
         THEN [again |-> TRUE, val |-> <<>>, err |-> NoErr]
         ELSE [again |-> FALSE, val |-> <<>>, err |-> ErrTooManyRetries]

\* sendRequest that hands every error, ChallengeRequired included, to its caller
sendRequestNoRetry(retry, val, err) ==
    IF err = NoErr THEN [again |-> FALSE, val |-> val, err |-> NoErr]
    ELSE [again |-> FALSE, val |-> <<>>, err |-> err]

\* sendRequest with a budget of 4
sendRequestFourTries(retry, val, err) ==
    IF err = NoErr THEN [again |-> FALSE, val |-> val, err |-> NoErr]
    ELSE IF err = ErrChallengeRequired
         THEN IF retry + 1 < MaxRetries + 1
              THEN [again |-> TRUE, val |-> <<>>, err |-> NoErr]
              ELSE [again |-> FALSE, val |-> <<>>, err |-> ErrTooManyRetries]
         ELSE [again |-> FALSE, val |-> <<>>, err |-> err]

sendRequest(retry, val, err) ==
    IF err = NoErr THEN [again |-> FALSE, val |-> val, err |-> NoErr]
    ELSE IF err = ErrChallengeRequired
         THEN IF retry + 1 < MaxRetries
              THEN [again |-> TRUE, val |-> <<>>, err |-> NoErr]
              ELSE [again |-> FALSE, val |-> <<>>, err |-> ErrTooManyRetries]
         ELSE [again |-> FALSE, val |-> <<>>, err |-> err]

(***************************************************************************)
(* The public queries, as what they do next at each point where they have  *)
(* control: on entry, and when a sendRequest returns (val, err).  The      *)
(* answer is either a sendRequest to start or the operation's return.      *)
(***************************************************************************)
Send(stage, packetType, payload, expect) ==
    [kind |-> "send", stage |-> stage, packetType |-> packetType,
     payload |-> payload, expect |-> expect, val |-> <<>>, err |-> NoErr]

Return(val, err) ==
    [kind |-> "return", stage |-> "none", packetType |-> 0,
     payload |-> <<>>, expect |-> 0, val |-> val, err |-> err]

ReturnParsed(r) == Return(r.val, r.err)

\* GetInfo that falls back to GoldSource only after a protocol mismatch
GetInfoAtMismatchOnly(stage, isConn, val, err) ==
    IF stage = "entry"
    THEN IF ~isConn THEN Return(NilInfo, ErrNotConnected)
         ELSE Send("src", A2S_INFO, InfoPayload, S2A_INFO_SRC)
    ELSE IF stage = "src"
    THEN IF err.kind = "ProtocolError"
         THEN Send("gold", A2S_INFO, InfoPayload, S2A_INFO_GOLD)
         ELSE IF err # NoErr THEN Return(NilInfo, err)
         ELSE ReturnParsed(parseSourceInfo(val))
    ELSE IF err # NoErr THEN Return(NilInfo, err)
         ELSE ReturnParsed(parseGoldSourceInfo(val))

GetInfoAt(stage, isConn, val, err) ==
    IF stage = "entry"
    THEN IF ~isConn THEN Return(NilInfo, ErrNotConnected)
         ELSE Send("src", A2S_INFO, InfoPayload, S2A_INFO_SRC)
    ELSE IF stage = "src"
    THEN IF err # NoErr THEN Send("gold", A2S_INFO, InfoPayload, S2A_INFO_GOLD)
         ELSE ReturnParsed(parseSourceInfo(val))
    ELSE IF err # NoErr THEN Return(NilInfo, err)
         ELSE ReturnParsed(parseGoldSourceInfo(val))

\* ch is c.challenge when the probe's sendRequest has returned
GetPlayersAt(stage, isConn, ch, val, err) ==
    IF stage = "entry"
    THEN IF ~isConn THEN Return(<<>>, ErrNotConnected)
         ELSE Send("probe", A2S_PLAYER, challengeReq, S2C_CHALLENGE)
    ELSE IF stage = "probe"
    THEN IF err # NoErr /\ err # ErrChallengeRequired THEN Return(<<>>, err)
         ELSE IF ch = -1 THEN Return(<<>>, ErrChallengeNotReceived)
         ELSE Send("real", A2S_PLAYER, PutUint32(ch), S2A_PLAYER)
    ELSE IF err # NoErr THEN Return(<<>>, err)
         ELSE ReturnParsed(parsePlayersResponse(val))

GetRulesAt(stage, isConn, ch, val, err) ==
    IF stage = "entry"
    THEN IF ~isConn THEN Return(<<>>, ErrNotConnected)
         ELSE Send("probe", A2S_RULES, challengeReq, S2C_CHALLENGE)
    ELSE IF stage = "probe"
    THEN IF err # NoErr /\ err # ErrChallengeRequired THEN Return(<<>>, err)
         ELSE IF ch = -1 THEN Return(<<>>, ErrChallengeNotReceived)
         ELSE Send("real", A2S_RULES, PutUint32(ch), S2A_RULES)
    ELSE IF err # NoErr THEN Return(<<>>, err)
         ELSE ReturnParsed(parseRulesResponse(val))

\* features := ServerFeatures{Info: true}
NewFeatures == [NoFeatures EXCEPT !.Info = TRUE]

\* features.Players = err == nil after GetPlayers, features.Rules = err == nil
\* after GetRules
\* CheckFeatures that records failure as support
CheckFeaturesRecordInverted(features, op, err) ==
    IF op = "GetPlayers" THEN [features EXCEPT !.Players = (err # NoErr)]
    ELSE [features EXCEPT !.Rules = (err # NoErr)]

CheckFeaturesRecord(features, op, err) ==
    IF op = "GetPlayers" THEN [features EXCEPT !.Players = (err = NoErr)]
    ELSE [features EXCEPT !.Rules = (err = NoErr)]

(***************************************************************************)
(* Frame transitions.                                                      *)
(***************************************************************************)
\* a public operation begins: fresh histories, no result yet
Fresh(op, outer, ch) ==
    [IdleFrame EXCEPT !.op = op, !.outer = outer, !.ch0 = ch,
                      !.features = IF outer = "CheckFeatures" THEN NewFeatures
                                   ELSE NoFeatures]

\* sendRequest is called: retry := 0, the first sendRequestRaw is next
BeginSend(f, ins) ==
    [f EXCEPT !.stage = ins.stage, !.pc = "write", !.retry = 0,
              !.packetType = ins.packetType, !.payload = ins.payload,
              !.expectResponse = ins.expect,
              !.srs = Append(@, [packetType |-> ins.packetType,
                                 payload |-> ins.payload,
                                 expect |-> ins.expect, errs |-> <<>>,
                                 val |-> <<>>, err |-> NoErr, done |-> FALSE])]

\* the frame of a caller that is in no operation; the histories stay
Unwind(f) ==
    [IdleFrame EXCEPT !.features = f.features, !.log = f.log, !.srs = f.srs,
                      !.inner = f.inner, !.ch0 = f.ch0]

RECURSIVE ReturnOp(_, _, _, _, _)
\* the query f.op returns (val, err) to its caller: to the program, or to
\* CheckFeatures, which goes on with GetRules after GetPlayers.  A panic
\* unwinds the whole program.
ReturnOp(f, val, err, isConn, ch) ==
    IF err = Panic
    THEN [Unwind(f) EXCEPT !.op = "panicked",
                           !.res = [op |-> f.op, val |-> val, err |-> err]]
    ELSE IF f.outer # "CheckFeatures"
    THEN [Unwind(f) EXCEPT !.res = [op |-> f.op, val |-> val, err |-> err]]
    ELSE LET f1 == [f EXCEPT !.features = CheckFeaturesRecord(@, f.op, err),
                             !.inner = Append(@, [op |-> f.op, err |-> err])]
         IN  IF f.op = "GetPlayers"
             THEN LET f2 == [f1 EXCEPT !.op = "GetRules", !.stage = "none"]
                      ins == GetRulesAt("entry", isConn, ch, <<>>, NoErr)
                  IN  IF ins.kind = "send" THEN BeginSend(f2, ins)
                      ELSE ReturnOp(f2, ins.val, ins.err, isConn, ch)
             ELSE [Unwind(f1) EXCEPT !.res = [op |-> "CheckFeatures",
                                              val |-> f1.features, err |-> NoErr]]

Apply(f, ins, isConn, ch) ==
    IF ins.kind = "send" THEN BeginSend(f, ins)
    ELSE ReturnOp(f, ins.val, ins.err, isConn, ch)

\* one sendRequestRaw of the running sendRequest has returned (val, err):
\* the retry wrapper loops or returns, and on return the query goes on
AfterRaw(f, val, err, isConn, ch) ==
    LET d == sendRequest(f.retry, val, err)
        n == Len(f.srs)
        f1 == [f EXCEPT !.srs[n].errs = Append(@, err)]
        f2 == [f1 EXCEPT !.srs[n].val = d.val, !.srs[n].err = d.err,
                         !.srs[n].done = TRUE]
        ins == IF f.op = "GetInfo" THEN GetInfoAt(f.stage, isConn, d.val, d.err)
               ELSE IF f.op = "GetPlayers"
               THEN GetPlayersAt(f.stage, isConn, ch, d.val, d.err)
               ELSE GetRulesAt(f.stage, isConn, ch, d.val, d.err)
    IN  IF d.again THEN [f1 EXCEPT !.retry = @ + 1, !.pc = "write"]
        ELSE Apply(f2, ins, isConn, ch)

Event(ev, data, kind) == [ev |-> ev, data |-> data, kind |-> kind]

(***************************************************************************)
(* Actions.                                                                *)
(***************************************************************************)
Crashed == \E p \in DOMAIN caller : caller[p].op = "panicked"

Ready(p) == ~Crashed /\ caller[p].op = "idle"

\* Connect that forgets the cached challenge when it opens an association
ConnectResetsChallenge(p) ==
    /\ Ready(p)
    /\ \E ok \in BOOLEAN :
          /\ conn' = IF ok THEN "open" ELSE conn
          /\ connected' = IF ok THEN TRUE ELSE connected
          /\ challenge' = IF ok THEN -1 ELSE challenge
          /\ caller' = [caller EXCEPT ![p] =
                [IdleFrame EXCEPT !.res = [op |-> "Connect", val |-> <<>>,
                     err |-> IF ok THEN NoErr ELSE Err("connect error")]]]
    /\ UNCHANGED <<app, inbox>>

\* Connect: resolving or dialling may fail and then changes nothing; the
\* SetDeadline on the fresh association succeeds.
Connect(p) ==
    /\ Ready(p)
    /\ \E ok \in BOOLEAN :
          /\ conn' = IF ok THEN "open" ELSE conn
          /\ connected' = IF ok THEN TRUE ELSE connected
          /\ caller' = [caller EXCEPT ![p] =
                [IdleFrame EXCEPT !.res = [op |-> "Connect", val |-> <<>>,
                     err |-> IF ok THEN NoErr ELSE Err("connect error")]]]
    /\ UNCHANGED <<challenge, app, inbox>>

\* Close that forgets the cached challenge
CloseResetsChallenge(p) ==
    /\ Ready(p)
    /\ conn' = IF conn # "nil" THEN "closed" ELSE conn
    /\ connected' = IF conn # "nil" THEN FALSE ELSE connected
    /\ challenge' = -1
    /\ caller' = [caller EXCEPT ![p] =
          [IdleFrame EXCEPT !.res = [op |-> "Close", val |-> <<>>,
               err |-> IF conn = "closed" THEN Err("close error") ELSE NoErr]]]
    /\ UNCHANGED <<app, inbox>>

Close(p) ==
    /\ Ready(p)
    /\ conn' = IF conn # "nil" THEN "closed" ELSE conn
    /\ connected' = IF conn # "nil" THEN FALSE ELSE connected
    /\ caller' = [caller EXCEPT ![p] =
          [IdleFrame EXCEPT !.res = [op |-> "Close", val |-> <<>>,
               err |-> IF conn = "closed" THEN Err("close error") ELSE NoErr]]]
    /\ UNCHANGED <<challenge, app, inbox>>

GetInfo(p) ==
    /\ Ready(p)
    /\ caller' = [caller EXCEPT ![p] =
          Apply(Fresh("GetInfo", "none", challenge),
                GetInfoAt("entry", IsConnected, <<>>, NoErr), IsConnected, challenge)]
    /\ UNCHANGED <<conn, connected, challenge, app, inbox>>

GetPlayers(p) ==
    /\ Ready(p)
    /\ caller' = [caller EXCEPT ![p] =
          Apply(Fresh("GetPlayers", "none", challenge),
                GetPlayersAt("entry", IsConnected, challenge, <<>>, NoErr),
                IsConnected, challenge)]
    /\ UNCHANGED <<conn, connected, challenge, app, inbox>>

GetRules(p) ==
    /\ Ready(p)
    /\ caller' = [caller EXCEPT ![p] =
          Apply(Fresh("GetRules", "none", challenge),
                GetRulesAt("entry", IsConnected, challenge, <<>>, NoErr),
                IsConnected, challenge)]
    /\ UNCHANGED <<conn, connected, challenge, app, inbox>>

CheckFeatures(p) ==
    /\ Ready(p)
    /\ caller' = [caller EXCEPT ![p] =
          Apply(Fresh("GetPlayers", "CheckFeatures", challenge),
                GetPlayersAt("entry", IsConnected, challenge, <<>>, NoErr),
                IsConnected, challenge)]
    /\ UNCHANGED <<conn, connected, challenge, app, inbox>>

\* sendRequestRaw that goes on to read after a failed write
WriteStepReadsAnyway(p) ==
    /\ ~Crashed
    /\ caller[p].pc = "write"
    /\ \E ok \in (IF conn = "open" THEN BOOLEAN ELSE {FALSE}) :
          LET f == caller[p]
              packet == buildPacket(challenge, f.packetType, f.payload)
              f1 == [f EXCEPT !.log = @ \o
                        <<Event("deadline", <<>>, "ok"),
                          Event("write", packet, IF ok THEN "ok" ELSE "error")>>]
          IN  caller' = [caller EXCEPT ![p] = [f1 EXCEPT !.pc = "read"]]
    /\ UNCHANGED <<conn, connected, challenge, app>>

\* sendRequestRaw up to the write: build the packet from the cached
\* challenge, re-arm the deadline, write.  A failed write returns at once.
WriteStep(p) ==
    /\ ~Crashed
    /\ caller[p].pc = "write"
    /\ \E ok \in (IF conn = "open" THEN BOOLEAN ELSE {FALSE}) :
          LET f == caller[p]
              packet == buildPacket(challenge, f.packetType, f.payload)
              f1 == [f EXCEPT !.log = @ \o
                        <<Event("deadline", <<>>, "ok"),
                          Event("write", packet, IF ok THEN "ok" ELSE "error")>>]
          IN  caller' = [caller EXCEPT ![p] =
                 IF ok THEN [f1 EXCEPT !.pc = "read"]
                 ELSE AfterRaw(f1, <<>>, ErrWrite, IsConnected, challenge)]
    /\ UNCHANGED <<conn, connected, challenge, app>>

\* sendRequestRaw from the read on: read, then processResponse; outs is what
\* the read can return
ReadStep(p, outs) ==
    /\ ~Crashed
    /\ caller[p].pc = "read"
    /\ \E out \in outs :
          LET f == caller[p]
              r == IF out.kind = "timeout" THEN Ret(<<>>, ErrTimeout, challenge)
                   ELSE IF out.kind = "error" THEN Ret(<<>>, ErrRead, challenge)
                   ELSE processResponse(out.data, f.expectResponse, challenge)
              f1 == [f EXCEPT !.log = Append(@, Event("read", out.data, out.kind))]
          IN  /\ conn # "open" => out.kind = "error"
              /\ challenge' = r.challenge
              /\ caller' = [caller EXCEPT ![p] =
                    AfterRaw(f1, r.val, r.err, IsConnected, r.challenge)]
    /\ UNCHANGED <<conn, connected, app>>

\* the exchange against a server that may answer anything
Write(p) == WriteStep(p) /\ UNCHANGED inbox

Read(p) == ReadStep(p, ReadOutcomes) /\ UNCHANGED inbox

Next ==
    \/ \E p \in Callers : Connect(p)
    \/ \E p \in Callers : Close(p)
    \/ \E p \in Callers : GetInfo(p)
    \/ \E p \in Callers : GetPlayers(p)
    \/ \E p \in Callers : GetRules(p)
    \/ \E p \in Callers : CheckFeatures(p)
    \/ \E p \in Callers : Write(p)
    \/ \E p \in Callers : Read(p)

Spec == Init /\ [][Next]_vars

\* Every write returns, and every read returns by its deadline: a caller
\* inside sendRequestRaw goes on.
FairSpec ==
    /\ Spec
    /\ \A p \in Callers : WF_vars(Write(p)) /\ WF_vars(Read(p))

(***************************************************************************)
(* CodecSpec: the codec functions called directly on a connected client,   *)
(* over all inputs within the bounds.  app holds the call: the function,   *)
(* its byte-slice argument (data), its type-byte argument (t), the cached  *)
(* challenge at the call (ch0) and, once called, what it returned.  The    *)
(* cached challenge is the client's field.                                 *)
(***************************************************************************)
MaxPayloadLen == 2
MaxDataLen == 5

InputBytes == {0, 65, 128, 255}

BSeq(n) == UNION {[1..k -> InputBytes] : k \in 0..n}

\* int32 values: the sentinel, small ones, byte boundaries, both extremes
ChallengeInputs ==
    {-1, 0, 1, 255, 256, 16909060, 2147483647,
     -2, -256, -16909060, -2147483647 - 1}

Call(fn, data, t) == [NoApp EXCEPT !.fn = fn, !.data = data, !.t = t]

BuildInputs ==
    {Call("buildPacket", d, t) :
        d \in BSeq(MaxPayloadLen),
        t \in {A2S_INFO, A2S_PLAYER, A2S_RULES, S2C_CHALLENGE}}

SingleInputs ==
    {Call("processSinglePacket", d, t) :
        d \in BSeq(MaxDataLen), t \in {S2C_CHALLENGE, S2A_INFO_SRC, 0}}

CodecInit ==
    /\ conn = "open"
    /\ connected = TRUE
    /\ caller = [p \in Callers |-> IdleFrame]
    /\ inbox = <<>>
    /\ \/ challenge \in ChallengeInputs
          /\ \E a \in BuildInputs : app = [a EXCEPT !.ch0 = challenge]
       \/ challenge \in {-1, 16909060}
          /\ \E a \in SingleInputs : app = [a EXCEPT !.ch0 = challenge]

BuildPacketCall ==
    /\ app.fn = "buildPacket"
    /\ ~app.done
    /\ app' = [app EXCEPT !.done = TRUE,
                  !.out = Ret(buildPacket(challenge, app.t, app.data), NoErr, challenge)]
    /\ UNCHANGED <<conn, connected, challenge, caller, inbox>>

ProcessSinglePacketCall ==
    /\ app.fn = "processSinglePacket"
    /\ ~app.done
    /\ LET r == processSinglePacket(app.data, app.t, challenge)
       IN  /\ app' = [app EXCEPT !.done = TRUE, !.out = r]
           /\ challenge' = r.challenge
    /\ UNCHANGED <<conn, connected, caller, inbox>>

CodecNext ==
    \/ BuildPacketCall
    \/ ProcessSinglePacketCall

CodecSpec == CodecInit /\ [][CodecNext]_vars

(***************************************************************************)
(* Reading the histories.  In the log of one caller every exchange is      *)
(* deadline, write, read (or deadline, failed write).                      *)
(***************************************************************************)
Queries == {"GetInfo", "GetPlayers", "GetRules"}

Writes(log) == SelectSeq(log, LAMBDA e : e.ev = "write")

Reads(log) == SelectSeq(log, LAMBDA e : e.ev = "read")

\* every write of the log succeeded and every read returned a datagram
Clean(log) ==
    /\ Len(log) % 3 = 0
    /\ \A i \in 1..Len(log) :
          /\ i % 3 = 1 => log[i].ev = "deadline"
          /\ i % 3 = 2 => log[i].ev = "write" /\ log[i].kind = "ok"
          /\ i % 3 = 0 => log[i].ev = "read" /\ log[i].kind = "data"

NumExchanges(log) == Len(log) \div 3

Req(log, k) == log[3 * k - 1].data

Resp(log, k) == log[3 * k].data

\* d, as sent by a server, is a challenge response carrying c: type 0x41 and
\* 4 more bytes after the single-packet header or after a split-packet
\* header with its 8 bytes of fragment metadata
IsChalResp(d, c) ==
    \/ /\ Len(d) >= 9
       /\ SubSeq(d, 1, 4) = <<255, 255, 255, 255>>
       /\ d[5] = 65
       /\ Int32LE(SubSeq(d, 6, 9)) = c
    \/ /\ Len(d) >= 17
       /\ SubSeq(d, 1, 4) = <<254, 255, 255, 255>>
       /\ d[13] = 65
       /\ Int32LE(SubSeq(d, 14, 17)) = c

\* the last 4 bytes of req are c, little-endian
HasTrailing(req, c) ==
    Len(req) >= 9 /\ Int32LE(SubSeq(req, Len(req) - 3, Len(req))) = c

\* bytes 5..8 of req are c, little-endian
HasLeading(req, c) ==
    Len(req) >= 9 /\ Int32LE(SubSeq(req, 6, 9)) = c

\* the record SrcInfoBody describes
SrcInfoRecord ==
    [Protocol |-> 17, Name |-> <<65>>, Map |-> <<66>>, Folder |-> <<67>>,
     Game |-> <<68>>, AppID |-> 2, Players |-> 5, MaxPlayers |-> 16, Bots |-> 0,
     ServerType |-> 100, Environment |-> 108, Visibility |-> 0, VAC |-> 1,
     Version |-> <<118, 49>>, GamePort |-> 27015, SteamID |-> Zero64,
     SourceTVPort |-> 0, SourceTVName |-> <<>>, GameID |-> Zero64, EDF |-> 128]

\* the list PlayersBody describes, and the list RulesBody describes
PlayersList ==
    <<[Index |-> 0, Name |-> <<112>>, Score |-> 7, Duration |-> <<0, 0, 128, 63>>,
       Deaths |-> 0, Money |-> 0]>>

RulesList == <<[Name |-> <<107>>, Value |-> <<118>>]>>

(***************************************************************************)
(* C1.  GetPlayers and GetRules complete the challenge handshake: when     *)
(* every read of the operation returned what a server would send that      *)
(* answers the probe with a challenge response carrying c and answers a    *)
(* PLAYER (RULES) request carrying c in bytes 5..8 with the well-formed     *)
(* 0x44 (0x45) response, the operation returns the parsed list and no      *)
(* error.                                                                  *)
(***************************************************************************)
HandshakeServed(f, c, good) ==
    /\ Clean(f.log)
    /\ NumExchanges(f.log) >= 1
    /\ IsChalResp(Resp(f.log, 1), c)
    /\ \A k \in 1..NumExchanges(f.log) :
          \/ IsChalResp(Resp(f.log, k), c)
          \/ HasLeading(Req(f.log, k), c) /\ Resp(f.log, k) = good

\* C1: a served handshake ends in the parsed list and no error
C1_Handshake ==
    \A p \in Callers : \A c \in ServerChallenges \ {-1} :
        LET f == caller[p]
        IN  /\ (f.res.op = "GetPlayers" /\ HandshakeServed(f, c, PlayersResp))
                => f.res.err = NoErr /\ f.res.val = PlayersList
            /\ (f.res.op = "GetRules" /\ HandshakeServed(f, c, RulesResp))
                => f.res.err = NoErr /\ f.res.val = RulesList

(***************************************************************************)
(* C2.  GetInfo recovers from a challenge.  The server answers an INFO     *)
(* request whose last 4 bytes are c with the well-formed Source info       *)
(* response and any other INFO request with a challenge response carrying  *)
(* c.  Then GetInfo, begun with cached challenge -1, sends exactly two     *)
(* datagrams, the second ending in c, and returns the parsed record.       *)
(* C2_RecoversAll states this for every c a server may choose,             *)
(* C2_Recovers for every c other than -1.                                  *)
(***************************************************************************)
InfoServed(f, c) ==
    /\ Clean(f.log)
    /\ NumExchanges(f.log) >= 1
    /\ \A k \in 1..NumExchanges(f.log) :
          IF HasTrailing(Req(f.log, k), c)
          THEN Resp(f.log, k) = SrcInfoResp
          ELSE IsChalResp(Resp(f.log, k), c)

InfoRecovered(f, c) ==
    /\ NumExchanges(f.log) = 2
    /\ Len(Writes(f.log)) = 2
    /\ HasTrailing(Req(f.log, 2), c)
    /\ f.res.err = NoErr
    /\ f.res.val = SrcInfoRecord

\* C2 as stated: for every challenge value c, -1 included
C2_RecoversAll ==
    \A p \in Callers : \A c \in ServerChallenges :
        LET f == caller[p]
        IN  (f.res.op = "GetInfo" /\ f.ch0 = -1 /\ InfoServed(f, c))
                => InfoRecovered(f, c)

\* C2 amended: for every challenge value c other than -1
C2_Recovers ==
    \A p \in Callers : \A c \in ServerChallenges \ {-1} :
        LET f == caller[p]
        IN  (f.res.op = "GetInfo" /\ f.ch0 = -1 /\ InfoServed(f, c))
                => InfoRecovered(f, c)

C2_Witness ==
    \E p \in Callers : \E c \in ServerChallenges \ {-1} :
        LET f == caller[p]
        IN  /\ f.res.op = "GetInfo" /\ f.ch0 = -1 /\ InfoServed(f, c)
            /\ challenge = c
            /\ f.res.err = NoErr

(***************************************************************************)
(* C3.  The retry wrapper performs at most 3 exchanges per call, another   *)
(* exchange only after one that yielded ChallengeRequired; it returns      *)
(* TooManyRetries exactly when 3 exchanges in a row yielded                *)
(* ChallengeRequired, and any other error at once, as it is.  Every        *)
(* exchange of the socket log belongs to a sendRequest call.               *)
(***************************************************************************)
RECURSIVE SumExchanges(_)
SumExchanges(srs) ==
    IF srs = <<>> THEN 0 ELSE Len(Head(srs).errs) + SumExchanges(Tail(srs))

AllChallengeRequired(errs) ==
    \A k \in 1..Len(errs) : errs[k] = ErrChallengeRequired

\* C3: the retry budget and the returned error of every sendRequest call
C3_RetryBudget ==
    \A p \in Callers :
        LET f == caller[p]
        IN  /\ \A i \in 1..Len(f.srs) :
                  LET s == f.srs[i]
                      n == Len(s.errs)
                  IN  /\ n <= 3
                      /\ AllChallengeRequired(SubSeq(s.errs, 1, n - 1))
                      /\ ~s.done => n < 3 /\ AllChallengeRequired(s.errs)
                      /\ s.done =>
                            /\ n >= 1
                            /\ s.err = ErrTooManyRetries
                                  <=> (n = 3 /\ AllChallengeRequired(s.errs))
                            /\ s.errs[n] # ErrChallengeRequired
                                  => s.err = s.errs[n]
            /\ Len(Writes(f.log)) =
                  SumExchanges(f.srs) + (IF f.pc = "read" THEN 1 ELSE 0)

C3_Witness ==
    \E p \in Callers : \E i \in 1..Len(caller[p].srs) :
        LET s == caller[p].srs[i]
        IN  s.done /\ s.err = ErrTooManyRetries /\ Len(s.errs) = 3

(***************************************************************************)
(* C4.  GetInfo's format fallback.  The first sendRequest expects 0x49;    *)
(* there is a second one, expecting 0x6D, exactly when the first returned  *)
(* an error, and never a third; a 0x49 payload goes to the Source decoder, *)
(* a 0x6D payload to the GoldSource decoder; when both fail the error of   *)
(* the second is returned.                                                 *)
(***************************************************************************)
\* C4: which sendRequest calls GetInfo makes and what it returns
C4_Fallback ==
    \A p \in Callers :
        LET f == caller[p]
            n == Len(f.srs)
        IN  /\ (f.op = "GetInfo" \/ f.res.op = "GetInfo") /\ n >= 1 =>
                  /\ n <= 2
                  /\ f.srs[1].packetType = A2S_INFO
                  /\ f.srs[1].payload = InfoPayload
                  /\ f.srs[1].expect = 73
                  /\ n = 2 <=> (f.srs[1].done /\ f.srs[1].err # NoErr)
                  /\ n = 2 =>
                        /\ f.srs[2].packetType = A2S_INFO
                        /\ f.srs[2].payload = InfoPayload
                        /\ f.srs[2].expect = 109
            /\ f.res.op = "GetInfo" /\ n >= 1 =>
                  /\ f.srs[n].done
                  /\ (n = 1) =>
                        LET r == parseSourceInfo(f.srs[1].val)
                        IN  f.res.err = r.err /\ f.res.val = r.val
                  /\ (n = 2 /\ f.srs[2].err = NoErr) =>
                        LET r == parseGoldSourceInfo(f.srs[2].val)
                        IN  f.res.err = r.err /\ f.res.val = r.val
                  /\ (n = 2 /\ f.srs[2].err # NoErr) =>
                        f.res.err = f.srs[2].err /\ f.res.val = NilInfo

\* the Source exchange timed out and the GoldSource one was answered and decoded
C4_Witness ==
    \E p \in Callers :
        LET f == caller[p]
        IN  /\ f.res.op = "GetInfo"
            /\ Len(f.srs) = 2
            /\ f.srs[1].err = ErrTimeout
            /\ f.res.err = NoErr
            /\ f.res.val.Protocol = 47
            /\ f.res.val.Bots = 2

(***************************************************************************)
(* C5.  ChallengeRequired never reaches the caller of GetInfo, GetPlayers  *)
(* or GetRules (called directly or by CheckFeatures).                      *)
(***************************************************************************)
\* C5: no query returns ChallengeRequired
C5_NotSurfaced ==
    \A p \in Callers :
        LET f == caller[p]
        IN  /\ f.res.op \in Queries => f.res.err # ErrChallengeRequired
            /\ \A i \in 1..Len(f.inner) : f.inner[i].err # ErrChallengeRequired

\* a query has returned after an exchange of it had yielded ChallengeRequired
C5_Witness ==
    \E p \in Callers :
        LET f == caller[p]
        IN  /\ f.res.op \in Queries
            /\ \E i \in 1..Len(f.srs) : \E k \in 1..Len(f.srs[i].errs) :
                  f.srs[i].errs[k] = ErrChallengeRequired

(***************************************************************************)
(* C6.  Not-connected guard.  A query invoked while no association is open *)
(* (before the first successful Connect, or after Close) returns           *)
(* NotConnected at once, writes nothing and leaves the cached challenge    *)
(* alone; and whenever a datagram is written the connected flag is true    *)
(* and the association is non-nil.                                         *)
(***************************************************************************)
\* caller p invokes GetInfo, GetPlayers or GetRules in this step
QueryInvoked(p) ==
    /\ caller[p].op = "idle"
    /\ caller'[p].outer = "none"
    /\ caller'[p].op \in Queries \/ caller'[p].res.op \in Queries

\* caller p calls conn.Write in this step
WriteCalled(p) ==
    /\ caller'[p].log # <<>>
    /\ Len(Writes(caller'[p].log)) > Len(Writes(caller[p].log))

C6_GuardStep(p) ==
    /\ (QueryInvoked(p) /\ conn # "open") =>
          /\ caller'[p].op = "idle"
          /\ caller'[p].res.err = ErrNotConnected
          /\ caller'[p].log = <<>>
          /\ challenge' = challenge
    /\ WriteCalled(p) => connected /\ conn # "nil"

\* C6: every step keeps the not-connected guard
C6_NotConnectedGuard == [][\A p \in Callers : C6_GuardStep(p)]_vars

\* GetInfo was refused after a Close that followed a successful exchange
C6_Witness ==
    \E p \in Callers :
        /\ conn = "closed"
        /\ challenge # -1
        /\ caller[p].res.op = "GetInfo"
        /\ caller[p].res.err = ErrNotConnected

(***************************************************************************)
(* C7.  CheckFeatures invokes GetPlayers, then GetRules whatever           *)
(* GetPlayers returned, and reports Players and Rules as whether that      *)
(* call returned no error, Info as true and Ping as false.                 *)
(***************************************************************************)
\* C7: the features CheckFeatures returns
C7_CheckFeatures ==
    \A p \in Callers :
        LET f == caller[p]
        IN  f.res.op = "CheckFeatures" =>
               /\ Len(f.inner) = 2
               /\ f.inner[1].op = "GetPlayers"
               /\ f.inner[2].op = "GetRules"
               /\ f.res.val.Players = (f.inner[1].err = NoErr)
               /\ f.res.val.Rules = (f.inner[2].err = NoErr)
               /\ f.res.val.Info = TRUE
               /\ f.res.val.Ping = FALSE

\* on a connected client: GetPlayers failed in its probe, GetRules was still
\* invoked and made its own exchange
C7_Witness ==
    \E p \in Callers :
        LET f == caller[p]
        IN  /\ f.res.op = "CheckFeatures"
            /\ Len(f.srs) = 2
            /\ f.srs[1].packetType = A2S_PLAYER
            /\ f.srs[2].packetType = A2S_RULES
            /\ f.inner[1].err = ErrTimeout
            /\ f.res.val.Info

\* on a client that was never connected
C7_WitnessNotConnected ==
    \E p \in Callers :
        LET f == caller[p]
        IN  /\ f.res.op = "CheckFeatures"
            /\ conn = "nil"
            /\ f.res.val.Info

(***************************************************************************)
(* C9.  The cached challenge after a challenge response.  When a           *)
(* challenge response of at least 5 bytes carrying v is processed, the     *)
(* cached challenge becomes v; a cached challenge other than -1 becomes -1 *)
(* only by processing a challenge response that carries -1, never by       *)
(* Close, Connect or any other step.                                       *)
(* C9_NeverSentinel is the statement that after processing a challenge     *)
(* response the cached challenge differs from -1.                          *)
(***************************************************************************)
\* in this step caller p reads, and processes, a challenge response carrying v
ProcessedChal(p, v) ==
    LET f == caller[p].log
        g == caller'[p].log
    IN  /\ Len(g) = Len(f) + 1
        /\ g[Len(g)].ev = "read"
        /\ g[Len(g)].kind = "data"
        /\ IsChalResp(g[Len(g)].data, v)

\* C9 amended: the cached challenge is the value last received; only a
\* received -1 brings it back to -1
C9_Persists ==
    [][/\ \A p \in Callers : \A v \in ServerChallenges :
             ProcessedChal(p, v) => challenge' = v
       /\ (challenge # -1 /\ challenge' = -1)
             => \E p \in Callers : ProcessedChal(p, -1)]_vars

\* C9 as stated: after a challenge response the cached challenge is not -1
C9_NeverSentinel ==
    [][\A p \in Callers : \A v \in ServerChallenges :
          ProcessedChal(p, v) => challenge' # -1]_vars

\* a challenge was obtained and the association then closed
C9_Witness ==
    \E p \in Callers :
        /\ challenge = 16909060
        /\ conn = "closed"
        /\ caller[p].res.op = "Close"

(***************************************************************************)
(* The 4-byte little-endian two's-complement encoding of an int32, byte by *)
(* byte (\div rounds down and % is never negative).                        *)
(***************************************************************************)
LE32(v) ==
    <<v % 256, (v \div 256) % 256, (v \div 65536) % 256, (v \div 16777216) % 256>>

(***************************************************************************)
(* C8.  Request layout: FF FF FF FF, the type byte, the encoding of the    *)
(* cached challenge if the type is PLAYER or RULES, the payload verbatim,  *)
(* the encoding of the cached challenge if the type is INFO and the        *)
(* challenge is not -1; bytes 5..8 of a PLAYER/RULES request decode to the *)
(* challenge.                                                              *)
(***************************************************************************)
\* C8: the layout of every built packet
C8_Layout ==
    (app.fn = "buildPacket" /\ app.done) =>
        LET pkt == app.out.val
            n == Len(app.data)
        IN  /\ \A i \in 1..Len(pkt) : pkt[i] \in 0..255
            /\ Len(pkt) >= 5
            /\ SubSeq(pkt, 1, 4) = <<255, 255, 255, 255>>
            /\ pkt[5] = app.t
            /\ app.t \in {85, 86} =>
                  /\ Len(pkt) = 9 + n
                  /\ SubSeq(pkt, 6, 9) = LE32(challenge)
                  /\ Int32LE(SubSeq(pkt, 6, 9)) = challenge
                  /\ SubSeq(pkt, 10, 9 + n) = app.data
            /\ (app.t = 84 /\ challenge # -1) =>
                  /\ Len(pkt) = 9 + n
                  /\ SubSeq(pkt, 6, 5 + n) = app.data
                  /\ SubSeq(pkt, 6 + n, 9 + n) = LE32(challenge)
            /\ (app.t \notin {85, 86} /\ ~(app.t = 84 /\ challenge # -1)) =>
                  /\ Len(pkt) = 5 + n
                  /\ SubSeq(pkt, 6, 5 + n) = app.data

\* a RULES request with a 2-byte payload built under a negative challenge
C8_Witness ==
    /\ app.fn = "buildPacket"
    /\ app.done
    /\ app.t = 86
    /\ Len(app.data) = 2
    /\ challenge = -16909060
    /\ Len(app.out.val) = 11

(***************************************************************************)
(* C10.  A single packet whose type byte is 0x41: with at least 5 bytes    *)
(* the cached challenge becomes the int32 whose little-endian encoding is  *)
(* the 4 bytes after the type byte and the result is ChallengeRequired     *)
(* with no payload, whatever type was expected, 0x41 included; with fewer  *)
(* than 5 bytes the result is ShortResponse and the cached challenge is    *)
(* as before.                                                              *)
(***************************************************************************)
\* C10: what a 0x41 packet does, for every expected type
C10_ChallengeResponse ==
    (/\ app.fn = "processSinglePacket"
     /\ app.done
     /\ Len(app.data) >= 1
     /\ app.data[1] = 65) =>
        IF Len(app.data) >= 5
        THEN /\ app.out.err = ErrChallengeRequired
             /\ app.out.val = <<>>
             /\ challenge >= -2147483647 - 1
             /\ challenge <= 2147483647
             /\ LE32(challenge) = SubSeq(app.data, 2, 5)
        ELSE /\ app.out.err = ErrShortResponse
             /\ app.out.val = <<>>
             /\ challenge = app.ch0

\* a challenge response with the sign bit set, processed while 0x41 itself
\* was the expected type
C10_Witness ==
    /\ app.fn = "processSinglePacket"
    /\ app.done
    /\ app.t = 65
    /\ Len(app.data) = 5
    /\ app.data[1] = 65
    /\ app.data[5] = 128
    /\ challenge < 0
    /\ challenge # app.ch0
    /\ app.out.err = ErrChallengeRequired

(***************************************************************************)
(* ResponseSpec: processResponse called directly on a connected client,    *)
(* over datagrams made of a header (or a piece of one), a run of split     *)
(* metadata and a tail of at most MaxTailLen bytes.                        *)
(***************************************************************************)
MaxTailLen == 5

TailBytes == {0, 65, 255}

TSeq(n) == UNION {[1..k -> TailBytes] : k \in 0..n}

\* request id 1, 2 packets, packet 0, size 1248
SplitMeta == <<1, 0, 0, 0, 2, 0, 224, 4>>

ResponseHeaders ==
    {Header, SPLIT_FLAG, <<253, 255, 255, 255>>, <<255, 255, 255, 254>>}

ResponseData ==
    {h \o SubSeq(SplitMeta, 1, k) \o tl :
        h \in ResponseHeaders, k \in {0, 4, 8}, tl \in TSeq(MaxTailLen)}
    \cup {SubSeq(Header, 1, k) : k \in 0..3}

ResponseInputs ==
    {Call("processResponse", d, t) :
        d \in ResponseData, t \in {S2C_CHALLENGE, S2A_INFO_SRC, 0}}

ResponseInit ==
    /\ conn = "open"
    /\ connected = TRUE
    /\ caller = [p \in Callers |-> IdleFrame]
    /\ inbox = <<>>
    /\ challenge \in {-1, 16909060}
    /\ \E a \in ResponseInputs : app = [a EXCEPT !.ch0 = challenge]

ProcessResponseCall ==
    /\ app.fn = "processResponse"
    /\ ~app.done
    /\ LET r == processResponse(app.data, app.t, challenge)
       IN  /\ app' = [app EXCEPT !.done = TRUE, !.out = r]
           /\ challenge' = r.challenge
    /\ UNCHANGED <<conn, connected, caller, inbox>>

ResponseNext == ProcessResponseCall

ResponseSpec == ResponseInit /\ [][ResponseNext]_vars

\* processResponse has been called on a datagram of at least 4 bytes
Responded == app.fn = "processResponse" /\ app.done /\ Len(app.data) >= 4

\* the bytes after the 4-byte header
Rest == SubSeq(app.data, 5, Len(app.data))

(***************************************************************************)
(* C11.  A datagram of at least 4 bytes whose first 4 bytes are neither    *)
(* FF FF FF FF nor FE FF FF FF (0xFFFFFFFF, 0xFFFFFFFE little-endian)      *)
(* fails with the unknown-header error and leaves the cached challenge     *)
(* unchanged, whatever follows and whatever type was expected.             *)
(***************************************************************************)
\* C11: unknown headers fail and store nothing
C11_UnknownHeader ==
    (/\ Responded
     /\ SubSeq(app.data, 1, 4) # <<255, 255, 255, 255>>
     /\ SubSeq(app.data, 1, 4) # <<254, 255, 255, 255>>) =>
        /\ app.out.err.kind = "unknown header"
        /\ app.out.val = <<>>
        /\ challenge = app.ch0

\* header FD FF FF FF followed by a complete challenge response, processed
\* while 0x41 was expected
C11_Witness ==
    /\ Responded
    /\ SubSeq(app.data, 1, 4) = <<253, 255, 255, 255>>
    /\ Len(app.data) = 9
    /\ app.data[5] = 65
    /\ app.data[6] = 0
    /\ app.t = 65
    /\ app.ch0 = -1
    /\ challenge = -1
    /\ app.out.err.kind = "unknown header"

(***************************************************************************)
(* C12.  A datagram with header FE FF FF FF: fewer than 9 bytes after the  *)
(* header give ShortResponse; otherwise the payload starts at 6, or at 8   *)
(* when more than 8 bytes follow the header; a start at or beyond the      *)
(* number of bytes after the header gives InvalidResponse; otherwise the   *)
(* result is that of processSinglePacket on the bytes from the start.      *)
(***************************************************************************)
\* C12: split-packet framing
C12_SplitFraming ==
    (Responded /\ SubSeq(app.data, 1, 4) = <<254, 255, 255, 255>>) =>
        LET n == Len(Rest)
            start == IF n > 8 THEN 8 ELSE 6
        IN  IF n < 9
            THEN /\ app.out.err.kind = "ErrShortResponse"
                 /\ app.out.val = <<>>
                 /\ challenge = app.ch0
            ELSE IF start >= n
            THEN /\ app.out.err.kind = "ErrInvalidResponse"
                 /\ challenge = app.ch0
            ELSE /\ app.out =
                      processSinglePacket(SubSeq(Rest, start + 1, n), app.t, app.ch0)
                 /\ challenge = app.out.challenge

\* a split packet whose payload, at offset 8, is a challenge response
C12_Witness ==
    /\ Responded
    /\ SubSeq(app.data, 1, 4) = <<254, 255, 255, 255>>
    /\ Len(Rest) = 13
    /\ Rest[7] = 224
    /\ Rest[9] = 65
    /\ app.ch0 = -1
    /\ challenge # -1
    /\ app.out.err.kind = "ErrChallengeRequired"

(***************************************************************************)
(* C19.  Response processing never yields InvalidResponse: a split packet  *)
(* that passes the 9-byte minimum has its payload start at 8, below the    *)
(* number of bytes after the header.                                       *)
(***************************************************************************)
\* C19: no datagram is answered with InvalidResponse
C19_NeverInvalid ==
    (app.fn = "processResponse" /\ app.done) =>
        /\ app.out.err.kind # "ErrInvalidResponse"
        /\ (/\ Len(app.data) >= 4
            /\ SubSeq(app.data, 1, 4) = <<254, 255, 255, 255>>
            /\ app.out.err.kind # "ErrShortResponse") => Len(Rest) > 8

\* a split packet with exactly 9 bytes after the header: the last one is the
\* type byte, and it is the expected one
C19_Witness ==
    /\ Responded
    /\ SubSeq(app.data, 1, 4) = <<254, 255, 255, 255>>
    /\ Len(Rest) = 9
    /\ Rest[9] = 0
    /\ app.t = 0
    /\ app.out.err = NoErr
    /\ app.out.val = <<>>

(***************************************************************************)
(* ParserSpec: the four payload parsers called directly.  The payloads are *)
(* well-formed ones cut at every length: lists of at most MaxEntries       *)
(* entries behind a count that may say more or less, Source info heads     *)
(* followed by a flags byte and at most MaxEdfTail bytes, and GoldSource   *)
(* payloads with and without a mod block.                                  *)
(***************************************************************************)
MaxEntries == 2
MaxEdfTail == 3

\* every prefix of d
Prefixes(d) == {SubSeq(d, 1, k) : k \in 0..Len(d)}

RECURSIVE Concats(_, _)
\* the concatenations of at most n members of es
Concats(es, n) ==
    IF n = 0 THEN {<<>>}
    ELSE LET shorter == Concats(es, n - 1)
         IN  shorter \cup {c \o e : c \in shorter, e \in es}

\* slot 0 "p" score 7 duration 1.0; slot 1 "" score -1 duration 0.0
PlayerEntries ==
    {<<0, 112, 0, 7, 0, 0, 0, 0, 0, 128, 63>>,
     <<1, 0, 255, 255, 255, 255, 0, 0, 0, 0>>}

PlayersPayloads ==
    {<<>>} \cup
    {<<n>> \o p : n \in 0..(MaxEntries + 1),
                  p \in UNION {Prefixes(b) : b \in Concats(PlayerEntries, MaxEntries)}}

\* "k" = "v", "" = "", "mo" = ""
RuleEntries == {<<107, 0, 118, 0>>, <<0, 0>>, <<109, 111, 0, 0>>}

\* the count bytes: 0 .. MaxEntries + 1, and 256
RuleCounts == {<<n, 0>> : n \in 0..(MaxEntries + 1)} \cup {<<0, 1>>}

RulesPayloads ==
    {<<>>, <<1>>} \cup
    {c \o p : c \in RuleCounts,
              p \in UNION {Prefixes(b) : b \in Concats(RuleEntries, MaxEntries)}}

\* SrcInfoBody up to its version string; protocol 17, "AA", "", "C", "DD",
\* appid 240, 1/2/3, 'd', 'w', private, no VAC, "1.0"
SrcHeads ==
    {SubSeq(SrcInfoBody, 1, 21),
     <<17, 65, 65, 0, 0, 67, 0, 68, 68, 0, 240, 0, 1, 2, 3, 100, 119, 1, 0,
       49, 46, 48, 0>>}

\* flag bytes: none, port, steam id, port + steam id, port + SourceTV,
\* port + keywords + steam id + game id, all
EdfBytes == {0, 128, 16, 144, 192, 177, 255}

EdfTailBytes == {0, 105, 255}

EdfTails == UNION {[1..k -> EdfTailBytes] : k \in 0..MaxEdfTail}

SrcInfoPayloads ==
    UNION {Prefixes(h) : h \in SrcHeads}
    \cup {h \o <<e>> \o tl : h \in SrcHeads, e \in EdfBytes, tl \in EdfTails}

\* mod URL "u", download URL "d", separator, version, size, two flags
GoldModBlock == <<117, 0, 100, 0, 0, 1, 0, 0, 0, 2, 0, 0, 0, 0, 1>>

\* GoldInfoBody with mod flag 0 and 2, and with mod flag 1 and a mod block
GoldBodies ==
    {GoldInfoBody,
     SubSeq(GoldInfoBody, 1, 16) \o <<2, 1, 2>>,
     SubSeq(GoldInfoBody, 1, 16) \o <<1>> \o GoldModBlock \o <<1, 2>>,
     SubSeq(GoldInfoBody, 1, 16) \o <<1, 117>>}

GoldInfoPayloads == UNION {Prefixes(b) : b \in GoldBodies}

ParserInputs ==
    {Call("parsePlayersResponse", d, 0) : d \in PlayersPayloads}
    \cup {Call("parseRulesResponse", d, 0) : d \in RulesPayloads}
    \cup {Call("parseSourceInfo", d, 0) : d \in SrcInfoPayloads}
    \cup {Call("parseGoldSourceInfo", d, 0) : d \in GoldInfoPayloads}

ParserInit ==
    /\ conn = "open"
    /\ connected = TRUE
    /\ challenge = -1
    /\ caller = [p \in Callers |-> IdleFrame]
    /\ inbox = <<>>
    /\ app \in ParserInputs

\* the parser fn returns r
Parsed(fn, r) ==
    /\ app.fn = fn
    /\ ~app.done
    /\ app' = [app EXCEPT !.done = TRUE, !.out = Ret(r.val, r.err, challenge)]
    /\ UNCHANGED <<conn, connected, challenge, caller, inbox>>

ParsePlayersResponseCall ==
    Parsed("parsePlayersResponse", parsePlayersResponse(app.data))

ParseRulesResponseCall ==
    Parsed("parseRulesResponse", parseRulesResponse(app.data))

ParseSourceInfoCall ==
    Parsed("parseSourceInfo", parseSourceInfo(app.data))

ParseGoldSourceInfoCall ==
    Parsed("parseGoldSourceInfo", parseGoldSourceInfo(app.data))

ParserNext ==
    \/ ParsePlayersResponseCall
    \/ ParseRulesResponseCall
    \/ ParseSourceInfoCall
    \/ ParseGoldSourceInfoCall

ParserSpec == ParserInit /\ [][ParserNext]_vars

(***************************************************************************)
(* Reading a payload as the wire format lays it out.  Offsets count from   *)
(* 0.  AfterString(d, off) is the offset behind the string that starts at  *)
(* off: behind its NUL, or the end of d when there is none.                *)
(***************************************************************************)
AfterString(d, off) ==
    LET nuls == {i \in (off + 1)..Len(d) : d[i] = 0}
    IN  IF nuls = {} THEN (IF off > Len(d) THEN off ELSE Len(d))
        ELSE CHOOSE i \in nuls : \A j \in nuls : i <= j

RECURSIVE Flatten(_)
Flatten(ss) == IF ss = <<>> THEN <<>> ELSE Head(ss) \o Flatten(Tail(ss))

\* the wire form of a list of players and of a list of rules
PlayersWire(ps) ==
    Flatten([i \in 1..Len(ps) |->
        <<ps[i].Index>> \o ps[i].Name \o <<0>> \o LE32(ps[i].Score) \o ps[i].Duration])

RulesWire(rs) ==
    Flatten([i \in 1..Len(rs) |-> rs[i].Name \o <<0>> \o rs[i].Value \o <<0>>])

\* a agrees with b as far as both go
Agree(a, b) ==
    LET m == IF Len(a) < Len(b) THEN Len(a) ELSE Len(b)
    IN  SubSeq(a, 1, m) = SubSeq(b, 1, m)

RECURSIVE PlayerCutShort(_, _, _, _)
\* among the first n entries from offset off, one has its score or its
\* duration not fully in d
PlayerCutShort(d, off, i, n) ==
    IF i >= n \/ off >= Len(d) THEN FALSE
    ELSE LET numbers == AfterString(d, off + 1)
         IN  numbers + 8 > Len(d) \/ PlayerCutShort(d, numbers + 8, i + 1, n)

(***************************************************************************)
(* C13.  Player and rules lists behind a count N.  A successful parse      *)
(* returns at most N entries in wire order.  Players: fewer than N only    *)
(* when the payload ends exactly behind the last entry returned; failure,  *)
(* with ShortResponse and no list, exactly when an entry's score or        *)
(* duration is not fully present.  Rules: never a failure from 2 bytes on; *)
(* fewer than N only when the payload is used up, and then the last rule   *)
(* returned may itself be cut short: its missing value or terminators read *)
(* as empty.  C13_EntryBoundary is the statement that a shorter list is    *)
(* returned only when the payload ends exactly behind a whole entry.       *)
(***************************************************************************)
PlayersParsed == app.fn = "parsePlayersResponse" /\ app.done /\ Len(app.data) >= 1

RulesParsed == app.fn = "parseRulesResponse" /\ app.done /\ Len(app.data) >= 2

\* the bytes behind the count
PlayersBytes == SubSeq(app.data, 2, Len(app.data))

RulesBytes == SubSeq(app.data, 3, Len(app.data))

RulesDeclared == app.data[1] + 256 * app.data[2]

\* C13 amended: at most N, wire order, early stop only on a used-up payload
C13_Lists ==
    /\ PlayersParsed =>
          LET ps == app.out.val
              short == PlayerCutShort(app.data, 1, 0, app.data[1])
          IN  /\ (app.out.err = ErrShortResponse) <=> short
              /\ app.out.err # NoErr => ps = <<>>
              /\ ~short =>
                    /\ app.out.err = NoErr
                    /\ Len(ps) <= app.data[1]
                    /\ Len(PlayersWire(ps)) <= Len(PlayersBytes)
                    /\ Agree(PlayersWire(ps), PlayersBytes)
                    /\ Len(ps) < app.data[1] => PlayersWire(ps) = PlayersBytes
    /\ RulesParsed =>
          LET rs == app.out.val
          IN  /\ app.out.err = NoErr
              /\ Len(rs) <= RulesDeclared
              /\ Agree(RulesWire(rs), RulesBytes)
              /\ Len(RulesWire(rs)) <= Len(RulesBytes) + 2
              /\ Len(rs) < RulesDeclared => Len(RulesWire(rs)) >= Len(RulesBytes)

\* C13 as stated: a list shorter than N means the payload ended behind a
\* whole entry
C13_EntryBoundary ==
    /\ (PlayersParsed /\ app.out.err = NoErr /\ Len(app.out.val) < app.data[1])
          => PlayersWire(app.out.val) = PlayersBytes
    /\ (RulesParsed /\ app.out.err = NoErr /\ Len(app.out.val) < RulesDeclared)
          => RulesWire(app.out.val) = RulesBytes

\* three players declared, two present in full and returned in wire order
C13_Witness ==
    /\ PlayersParsed
    /\ app.data[1] = 3
    /\ app.out.err = NoErr
    /\ Len(app.out.val) = 2
    /\ app.out.val[1].Index = 1
    /\ app.out.val[1].Score = -1
    /\ app.out.val[2].Name = <<112>>

\* three rules declared, the payload ends inside the second: it is returned
\* with an empty value
C13_WitnessRules ==
    /\ RulesParsed
    /\ RulesDeclared = 3
    /\ app.out.err = NoErr
    /\ Len(app.out.val) = 2
    /\ app.out.val[2] = [Name |-> <<109, 111>>, Value |-> <<>>]
    /\ Len(RulesWire(app.out.val)) > Len(RulesBytes)

(***************************************************************************)
(* C14.  A Source info payload that passes the fixed blocks and has a      *)
(* flags byte: the game port is the 2 bytes behind the flags byte,         *)
(* little-endian, when bit 0x80 is set and 2 bytes follow, and 0           *)
(* otherwise; the parse returns a record and no error.                     *)
(***************************************************************************)
\* the offset of the flags byte: protocol, four strings, appid, 7 bytes,
\* version string
EdfOffset(d) ==
    LET game == AfterString(d, AfterString(d, AfterString(d, AfterString(d, 1))))
    IN  AfterString(d, game + 9)

HasEdf(d) ==
    LET game == AfterString(d, AfterString(d, AfterString(d, AfterString(d, 1))))
    IN  Len(d) >= 20 /\ game + 9 <= Len(d) /\ EdfOffset(d) < Len(d)

\* C14: the optional game port
C14_GamePort ==
    (app.fn = "parseSourceInfo" /\ app.done /\ HasEdf(app.data)) =>
        LET d == app.data
            e == EdfOffset(d)
            flags == d[e + 1]
            follow == Len(d) - (e + 1)
        IN  /\ app.out.err = NoErr
            /\ app.out.val # NilInfo
            /\ app.out.val.EDF = flags
            /\ app.out.val.GamePort =
                  IF flags >= 128 /\ follow >= 2
                  THEN d[e + 2] + 256 * d[e + 3]
                  ELSE 0

\* flags 0x90 with port bytes 69 FF and nothing else: port 0xFF69, no steam id
C14_Witness ==
    /\ app.fn = "parseSourceInfo"
    /\ app.done
    /\ HasEdf(app.data)
    /\ app.data[EdfOffset(app.data) + 1] = 144
    /\ Len(app.data) = EdfOffset(app.data) + 3
    /\ app.out.err = NoErr
    /\ app.out.val.GamePort = 65385
    /\ app.out.val.SteamID = Zero64

\* flags 0x80 with a single byte behind: no port, no error
C14_WitnessCut ==
    /\ app.fn = "parseSourceInfo"
    /\ app.done
    /\ HasEdf(app.data)
    /\ app.data[EdfOffset(app.data) + 1] = 128
    /\ Len(app.data) = EdfOffset(app.data) + 2
    /\ app.out.err = NoErr
    /\ app.out.val.GamePort = 0

(***************************************************************************)
(* C16.  The GoldSource decoder: ShortResponse only when fewer than 2      *)
(* bytes remain behind the five leading strings; with 2 to 7 bytes         *)
(* behind them, or with mod flag 1 and a mod block that runs past the      *)
(* payload, an out-of-range read.                                          *)
(***************************************************************************)
\* the offset behind the five leading strings
GoldFixed(d) ==
    AfterString(d, AfterString(d, AfterString(d, AfterString(d, AfterString(d, 0)))))

\* the offset behind the mod block that starts behind the mod flag
GoldModEnd(d) == AfterString(d, AfterString(d, GoldFixed(d) + 7)) + 11

\* C16: typed error and out-of-range reads of the GoldSource decoder
C16_GoldSourceReads ==
    (app.fn = "parseGoldSourceInfo" /\ app.done) =>
        LET d == app.data
            remain == Len(d) - GoldFixed(d)
        IN  /\ (app.out.err = ErrShortResponse) <=> remain < 2
            /\ (remain >= 2 /\ remain < 8) => app.out.err = Panic
            /\ (remain >= 8 /\ d[GoldFixed(d) + 7] = 1 /\ GoldModEnd(d) > Len(d))
                  => app.out.err = Panic
            /\ app.out.err \in {ErrShortResponse, Panic, NoErr}
            /\ app.out.err # NoErr => app.out.val = NilInfo

\* the payload ends behind the visibility byte: 6 bytes remain, the read of
\* the mod flag is out of range
C16_Witness ==
    /\ app.fn = "parseGoldSourceInfo"
    /\ app.done
    /\ Len(app.data) - GoldFixed(app.data) = 6
    /\ app.out.err = Panic

\* mod flag 1 and the mod block cut inside its version field
C16_WitnessMod ==
    /\ app.fn = "parseGoldSourceInfo"
    /\ app.done
    /\ Len(app.data) - GoldFixed(app.data) >= 8
    /\ app.data[GoldFixed(app.data) + 7] = 1
    /\ GoldModEnd(app.data) > Len(app.data)
    /\ app.out.err = Panic

(***************************************************************************)
(* C15.  The socket calls of one caller, in order: every exchange is a     *)
(* deadline re-arm, a write and, when the write succeeded, a read.  A      *)
(* failed write is followed by no read.  So the datagrams written and the  *)
(* reads alternate, starting with a write, and every read comes directly   *)
(* behind a write.  The log of a caller holds the calls of its current or  *)
(* last public operation; operations of one caller follow one another.     *)
(***************************************************************************)
\* the log without the deadline calls and the writes that failed
Traffic(log) ==
    SelectSeq(log, LAMBDA e : e.ev = "read" \/ (e.ev = "write" /\ e.kind = "ok"))

\* C15: deadline, write, read; no read behind a failed write
C15_Alternation ==
    \A p \in Callers :
        LET log == caller[p].log
            n == Len(log)
            t == Traffic(log)
        IN  /\ \A i \in 1..n :
                  /\ log[i].ev \in {"deadline", "write", "read"}
                  /\ log[i].ev = "deadline" => i < n /\ log[i + 1].ev = "write"
                  /\ log[i].ev = "write" => i > 1 /\ log[i - 1].ev = "deadline"
                  /\ log[i].ev = "read" =>
                        i > 1 /\ log[i - 1].ev = "write" /\ log[i - 1].kind = "ok"
                  /\ (log[i].ev = "write" /\ log[i].kind = "error" /\ i < n)
                        => log[i + 1].ev = "deadline"
                  /\ (log[i].ev = "write" /\ log[i].kind = "ok" /\ i < n)
                        => log[i + 1].ev = "read"
            /\ \A k \in 1..Len(t) :
                  t[k].ev = IF k % 2 = 1 THEN "write" ELSE "read"
            /\ caller[p].pc = "read" <=>
                  (n > 0 /\ log[n].ev = "write" /\ log[n].kind = "ok")
            /\ Len(Reads(log)) <= Len(Writes(log))

\* a write failed, the next exchange wrote and read: GetInfo has returned
C15_Witness ==
    \E p \in Callers :
        LET log == caller[p].log
        IN  /\ caller[p].res.op = "GetInfo"
            /\ Len(log) = 5
            /\ log[2].ev = "write"
            /\ log[2].kind = "error"
            /\ log[3].ev = "deadline"
            /\ log[4].ev = "write"
            /\ log[4].kind = "ok"
            /\ log[5].ev = "read"

(***************************************************************************)
(* C18.  The cached challenge changes only in a step that reads a          *)
(* datagram carrying a challenge response of at least 5 bytes, as a single *)
(* packet or inside a split packet.  Every other step leaves it as it is:  *)
(* a read of anything else, a timeout, a read or write error, Connect,     *)
(* Close, the start of a query.                                            *)
(***************************************************************************)
\* in this step caller p reads a datagram that carries a challenge response
ReadsChallenge(p) ==
    LET f == caller[p].log
        g == caller'[p].log
    IN  /\ Len(g) = Len(f) + 1
        /\ g[Len(g)].ev = "read"
        /\ g[Len(g)].kind = "data"
        /\ \E v \in ServerChallenges : IsChalResp(g[Len(g)].data, v)

\* C18: only a received challenge response changes the cached challenge
C18_Frame ==
    [][challenge' # challenge => \E p \in Callers : ReadsChallenge(p)]_vars

\* a challenge is cached, and the last datagram read, a 0x41 packet behind
\* an unknown header or one cut short, has left it in place
C18_Witness ==
    \E p \in Callers :
        LET log == caller[p].log
        IN  /\ challenge = 16909060
            /\ Len(log) >= 6
            /\ log[Len(log)].ev = "read"
            /\ log[Len(log)].data \in {UnknownHeaderResp, ShortChalResp}
            /\ log[Len(log) - 3].ev = "read"
            /\ log[Len(log) - 3].data = ChalResp(16909060)

\* a challenge is cached, the association was closed and Connect, failing,
\* has left both as they were
C18_WitnessReconnect ==
    \E p \in Callers :
        /\ challenge = -2
        /\ conn = "closed"
        /\ caller[p].res.op = "Connect"

(***************************************************************************)
(* C20.  With reads that return, every public operation comes to an end,   *)
(* and it makes at most 6 exchanges (GetInfo, GetPlayers, GetRules) or 12  *)
(* (CheckFeatures).  An exchange is one sendRequestRaw: one deadline call  *)
(* in the log.  An operation ends by returning, or by the out-of-range     *)
(* read of the GoldSource decoder.                                         *)
(***************************************************************************)
Busy(p) == caller[p].op \in Queries

Exchanges(log) == Len(SelectSeq(log, LAMBDA e : e.ev = "deadline"))

ExchangeBudget(p) == IF caller[p].outer = "CheckFeatures" THEN 12 ELSE 6

\* C20: bounded exchanges, and termination under returning reads
C20_BoundedTermination ==
    /\ [](\A p \in Callers :
            /\ Exchanges(caller[p].log) <= ExchangeBudget(p)
            /\ (caller[p].outer = "CheckFeatures" /\ caller[p].op = "GetPlayers")
                  => Exchanges(caller[p].log) <= 6)
    /\ \A p \in Callers : Busy(p) ~> ~Busy(p)

\* GetInfo has returned after 6 exchanges: 3 challenges for each format
C20_Witness ==
    \E p \in Callers :
        /\ caller[p].res.op = "GetInfo"
        /\ caller[p].res.err = ErrTooManyRetries
        /\ Exchanges(caller[p].log) = 6

(***************************************************************************)
(* ConcSpec: two callers, each running one query on the same connected     *)
(* client, with no synchronization: the steps of their sendRequestRaw      *)
(* calls interleave.  The server is a Source server that answers every     *)
(* request, in order, and every write succeeds.  A read returns the oldest *)
(* datagram waiting on the socket, whoever asked for it, and times out     *)
(* when none waits.                                                        *)
(***************************************************************************)
ConcCallers == {1, 2}

\* the challenge the server hands out and asks for
ServerChallenge == 16909060

\* the server's answer to a request
Serve(req) ==
    LET n == Len(req)
        known == PutUint32(ServerChallenge)
    IN  IF req[5] = A2S_INFO
        THEN IF n >= 9 /\ SubSeq(req, n - 3, n) = known
             THEN SrcInfoResp ELSE ChalResp(ServerChallenge)
        ELSE IF n >= 9 /\ SubSeq(req, 6, 9) = known
             THEN (IF req[5] = A2S_PLAYER THEN PlayersResp ELSE RulesResp)
             ELSE ChalResp(ServerChallenge)

\* the datagrams no read has returned yet
Waiting == {i \in 1..Len(inbox) : inbox[i].by = 0}

ConcInit ==
    /\ conn = "open"
    /\ connected = TRUE
    /\ challenge = -1
    /\ caller = [p \in ConcCallers |-> IdleFrame]
    /\ app = NoApp
    /\ inbox = <<>>

\* caller p has not called anything yet
Unused(p) == caller[p] = IdleFrame

ConcGetInfo(p) == Unused(p) /\ GetInfo(p)

ConcGetPlayers(p) == Unused(p) /\ GetPlayers(p)

ConcGetRules(p) == Unused(p) /\ GetRules(p)

\* the write succeeds; the server's answer arrives on the socket
ConcWrite(p) ==
    /\ WriteStep(p)
    /\ LET log == caller'[p].log
           w == log[Len(log)]
       IN  /\ w.ev = "write"
           /\ w.kind = "ok"
           /\ inbox' = Append(inbox, [data |-> Serve(w.data), to |-> p, by |-> 0])

ConcRead(p) ==
    IF Waiting = {}
    THEN ReadStep(p, {[kind |-> "timeout", data |-> <<>>]}) /\ UNCHANGED inbox
    ELSE LET i == CHOOSE i \in Waiting : \A j \in Waiting : i <= j
         IN  /\ ReadStep(p, {[kind |-> "data", data |-> inbox[i].data]})
             /\ inbox' = [inbox EXCEPT ![i].by = p]

ConcNext ==
    \/ \E p \in ConcCallers : ConcGetInfo(p)
    \/ \E p \in ConcCallers : ConcGetPlayers(p)
    \/ \E p \in ConcCallers : ConcGetRules(p)
    \/ \E p \in ConcCallers : ConcWrite(p)
    \/ \E p \in ConcCallers : ConcRead(p)

ConcSpec == ConcInit /\ [][ConcNext]_vars

(***************************************************************************)
(* C17.  Two callers on one client.  Against a server that answers every   *)
(* request correctly, GetInfo fails only when a read has returned a        *)
(* datagram to a caller other than the one whose request it answers; and   *)
(* that happens: a GetInfo ends in a protocol mismatch after reading the   *)
(* other caller's answer, and the other caller's first request was built   *)
(* from the challenge that the GetInfo's exchange had cached.              *)
(***************************************************************************)
\* some read returned a datagram that answers the other caller's request
Crossed == \E i \in 1..Len(inbox) : inbox[i].by # 0 /\ inbox[i].by # inbox[i].to

\* caller p has read a challenge response in its operation
ReadChallenge(p) ==
    \E k \in 1..Len(caller[p].log) :
        /\ caller[p].log[k].ev = "read"
        /\ caller[p].log[k].kind = "data"
        /\ IsChalResp(caller[p].log[k].data, ServerChallenge)

\* the socket has received, for every caller, the server's answer to each
\* of its requests, in order
AnsweredCorrectly ==
    \A p \in ConcCallers :
        LET mine == SelectSeq(inbox, LAMBDA d : d.to = p)
            sent == Writes(caller[p].log)
        IN  /\ Len(mine) = Len(sent)
            /\ \A k \in 1..Len(sent) : mine[k].data = Serve(sent[k].data)

\* C17: with a correct server a GetInfo fails only through a crossed read
C17_FailsOnlyCrossed ==
    /\ AnsweredCorrectly
    /\ \A p \in ConcCallers :
          (caller[p].res.op = "GetInfo" /\ caller[p].res.err # NoErr) => Crossed

\* caller q's first request carries the challenge cached by caller p's
\* exchange, q's answer was returned to p, and p's GetInfo has ended in a
\* protocol mismatch
C17_Witness ==
    \E p, q \in ConcCallers :
        /\ p # q
        /\ caller[p].res.op = "GetInfo"
        /\ caller[p].res.err.kind = "ProtocolError"
        /\ \E i \in 1..Len(inbox) : inbox[i].to = q /\ inbox[i].by = p
        /\ AnsweredCorrectly
        /\ ReadChallenge(p)
        /\ ~ReadChallenge(q)
        /\ Len(caller[q].log) >= 2
        /\ caller[q].log[2].ev = "write"
        /\ SubSeq(caller[q].log[2].data, 6, 9) = LE32(ServerChallenge)
        /\ \E i, j \in 1..Len(inbox) : i < j /\ inbox[i].to = q /\ inbox[j].to = p

=============================================================================
